---- MODULE Spec2Model ----
(***************************************************************************)
(* Model of the API fixtures of the Playwright test suite:                 *)
(*   fixtures/api-fixture.ts   the apiHelper / authenticatedApiHelper      *)
(*                             fixtures (provisioning lifecycle)           *)
(*   helpers/api-helper.ts     the ApiHelper request client (RequestClient)*)
(*   tests/*.spec.ts           the test bodies (the consumers)             *)
(* Every test case is one linear task; several test cases interleave.      *)
(***************************************************************************)
EXTENDS Naturals, Integers, Sequences, FiniteSets, TLC

(***************************************************************************)
(* Bounds                                                                  *)
(***************************************************************************)
MaxCalls == 2

\* responses the page receives during one call of captureResponseWhenPageLoad
MaxArrivals == 3

\* elements of the page that match one locator
MaxElements == 2

\* calls of isAlertDisplayed on one page
MaxAlertCalls == 3

\* the two test cases whose provisioning runs interleave
Tests == {1, 2}

(***************************************************************************)
(* JavaScript values                                                       *)
(***************************************************************************)
Undefined == [type |-> "undefined"]
Str(s) == [type |-> "string", val |-> s]
Num(n) == [type |-> "number", num |-> n]
Obj(fields) == [type |-> "object", fields |-> fields]

IsString(v) == v.type = "string"
IsObject(v) == v.type = "object"

\* property read  o.name : undefined when the property is absent
Get(o, name) ==
    IF IsObject(o) /\ name \in DOMAIN o.fields THEN o.fields[name] ELSE Undefined

NoObject == 0

(***************************************************************************)
(* ApiHelper (helpers/api-helper.ts): one method per HTTP verb.            *)
(***************************************************************************)
Verbs == {"GET", "POST", "PUT", "PATCH", "DELETE"}
BodyVerbs == {"POST", "PUT", "PATCH", "DELETE"}

\* a string value given character by character (query parameter values)
Text(cs) == [type |-> "text", chars |-> cs]

Digit(d) == <<"0", "1", "2", "3", "4", "5", "6", "7", "8", "9">>[d + 1]

RECURSIVE DigitChars(_)
DigitChars(n) ==
    IF n < 10 THEN <<Digit(n)>>
    ELSE DigitChars(n \div 10) \o <<Digit(n % 10)>>

\* String(value) of a scalar query parameter value
StringOf(v) == IF v.type = "number" THEN DigitChars(v.num) ELSE v.chars

\* encodeURIComponent on one character: unreserved characters are kept,
\* every other character is percent-encoded
EncodeChar(c) ==
    CASE c = " " -> "%20"
      [] c = "&" -> "%26"
      [] c = "=" -> "%3D"
      [] c = "?" -> "%3F"
      [] c = "/" -> "%2F"
      [] c = "+" -> "%2B"
      [] OTHER   -> c

RECURSIVE EncodeChars(_)
EncodeChars(cs) ==
    IF cs = <<>> THEN "" ELSE EncodeChar(Head(cs)) \o EncodeChars(Tail(cs))

encodeURIComponent(v) == EncodeChars(StringOf(v))

\* entries.join(sep)
RECURSIVE Join(_, _)
Join(parts, sep) ==
    IF parts = <<>> THEN ""
    ELSE IF Len(parts) = 1 THEN parts[1]
    ELSE parts[1] \o sep \o Join(Tail(parts), sep)

\* queryParams is a sequence of <<key, value>> in insertion order, or Undefined
HasQuery(queryParams) == queryParams /= Undefined /\ queryParams.entries /= <<>>

QueryParams(entries) == [type |-> "params", entries |-> entries]

QueryString(queryParams) ==
    Join([i \in 1..Len(queryParams.entries) |->
             queryParams.entries[i][1] \o "=" \o
             encodeURIComponent(queryParams.entries[i][2])], "&")

\* BuildUrl that appends the '?' whenever a mapping is given, empty or not
BuildUrl_bare(url, queryParams) ==
    IF queryParams /= Undefined THEN url \o "?" \o QueryString(queryParams) ELSE url

BuildUrl(url, queryParams) ==
    IF HasQuery(queryParams) THEN url \o "?" \o QueryString(queryParams) ELSE url

\* headers: a map from header name to value, or Undefined
DefaultHeaders == [n \in {"Content-Type"} |-> "application/json"]

HeaderMap(headers) == IF headers = Undefined THEN <<>> ELSE headers.map

Headers(map) == [type |-> "headers", map |-> map]

\* EffectiveHeaders where the default is written over the caller's headers
EffectiveHeaders_defaultWins(headers, body) ==
    LET given == HeaderMap(headers)
        defaults == IF body /= Undefined THEN DefaultHeaders ELSE <<>>
    IN  [n \in DOMAIN defaults \cup DOMAIN given |->
            IF n \in DOMAIN defaults THEN defaults[n] ELSE given[n]]

EffectiveHeaders(headers, body) ==
    LET given == HeaderMap(headers)
        defaults == IF body /= Undefined THEN DefaultHeaders ELSE <<>>
    IN  [n \in DOMAIN defaults \cup DOMAIN given |->
            IF n \in DOMAIN given THEN given[n] ELSE defaults[n]]

\* the HTTP request one call of a verb method sends
BuildRequest(method, url, headers, body, queryParams) ==
    LET sentBody == IF method \in BodyVerbs THEN body ELSE Undefined
    IN  [method  |-> method,
         url     |-> BuildUrl(url, queryParams),
         headers |-> EffectiveHeaders(headers, sentBody),
         body    |-> sentBody]

getRequest(url, headers, queryParams) ==
    BuildRequest("GET", url, headers, Undefined, queryParams)
postRequest(url, headers, body, queryParams) ==
    BuildRequest("POST", url, headers, body, queryParams)
putRequest(url, headers, body, queryParams) ==
    BuildRequest("PUT", url, headers, body, queryParams)
patchRequest(url, headers, body, queryParams) ==
    BuildRequest("PATCH", url, headers, body, queryParams)
deleteRequest(url, headers, body, queryParams) ==
    BuildRequest("DELETE", url, headers, body, queryParams)

VerbRequest(method, url, headers, body, queryParams) ==
    CASE method = "GET"    -> getRequest(url, headers, queryParams)
      [] method = "POST"   -> postRequest(url, headers, body, queryParams)
      [] method = "PUT"    -> putRequest(url, headers, body, queryParams)
      [] method = "PATCH"  -> patchRequest(url, headers, body, queryParams)
      [] method = "DELETE" -> deleteRequest(url, headers, body, queryParams)

\* what the network can answer: a response of any status, or a transport fault
Fault(cause) == [kind |-> "fault", cause |-> cause]
JsonResponse(status, body) ==
    [kind |-> "response", status |-> status, json |-> TRUE, body |-> body]
TextResponse(status, text) ==
    [kind |-> "response", status |-> status, json |-> FALSE, text |-> text]

\* BodyAfter of a helper that blanks the password of the object it has sent
BodyAfter_scrubbed(data) ==
    IF IsObject(data) /\ "password" \in DOMAIN data.fields
    THEN Obj([data.fields EXCEPT !["password"] = Str("")])
    ELSE data

\* the  data  object a verb method was given, after the call: it is only read
BodyAfter(data) == data

\* the outcome of a verb method for the caller
Return(value) == [kind |-> "return", value |-> value]
Throw(error) == [kind |-> "throw", error |-> error]
NoResult == [kind |-> "none"]

RawResponse(wire) ==
    Obj([n \in {"status", "text"} |->
            IF n = "status" THEN Num(wire.status) ELSE Str(wire.text)])

\* Complete that lets the JSON parse error of a non-JSON body escape
Complete_parseThrows(wire) ==
    IF wire.kind = "fault" THEN Throw("TransportError")
    ELSE IF wire.json THEN Return(wire.body)
    ELSE Throw("SyntaxError")

\* Complete that raises on an error status, as clients that reject non-2xx do
Complete_rejectStatus(wire) ==
    IF wire.kind = "fault" THEN Throw("TransportError")
    ELSE IF wire.status >= 400 THEN Throw("HttpError")
    ELSE IF wire.json THEN Return(wire.body)
    ELSE Return(RawResponse(wire))

Complete(wire) ==
    IF wire.kind = "fault" THEN Throw("TransportError")
    ELSE IF wire.json THEN Return(wire.body)
    ELSE Return(RawResponse(wire))

(***************************************************************************)
(* Test data and the endpoints the suite talks to                          *)
(***************************************************************************)
LoginUrl == "https://dummyjson.com/auth/login"
MeUrl == "https://dummyjson.com/auth/me"
RefreshUrl == "https://dummyjson.com/auth/refresh"
NotFoundUrl == "https://dummyjson.com/http/404/Hello_Peter"
UsersUrl == "https://api.example.com/users"

\* testData/loginUser.json
loginData ==
    Obj([n \in {"username", "password"} |->
            IF n = "username" THEN Str("emilys") ELSE Str("emilyspass")])

JsonHeaders == Headers([n \in {"Content-Type"} |-> "application/json"])

\* token pairs the login endpoint may issue
TokenPairs == {<<"accA", "refA">>, <<"accB", "refB">>}

LoginFields ==
    {"accessToken", "refreshToken", "id", "username", "email",
     "firstName", "lastName", "gender", "image"}

LoginPayload(access, refresh) ==
    Obj([n \in LoginFields |->
            CASE n = "accessToken"  -> Str(access)
              [] n = "refreshToken" -> Str(refresh)
              [] n = "id"           -> Num(1)
              [] n = "username"     -> Str("emilys")
              [] n = "email"        -> Str("emily.johnson@x.dummyjson.com")
              [] n = "firstName"    -> Str("Emily")
              [] n = "lastName"     -> Str("Johnson")
              [] n = "gender"       -> Str("female")
              [] n = "image"        -> Str("https://dummyjson.com/icon/emilys/128")])

ErrorPayload(status, message) ==
    Obj([n \in {"status", "message"} |->
            IF n = "status" THEN Str(status) ELSE Str(message)])

Faults == {Fault("dns"), Fault("timeout"), Fault("reset")}

Message(text) == Obj([n \in {"message"} |-> Str(text)])

\* the account the login endpoint signs in for the credentials  creds
UserPayload(creds) ==
    Obj([n \in {"id", "username"} |->
            IF n = "id" THEN Num(1) ELSE Get(creds, "username")])

\* the token pair the refresh endpoint answers with
TokenPayload(access, refresh) ==
    Obj([n \in {"accessToken", "refreshToken"} |->
            IF n = "accessToken" THEN Str(access) ELSE Str(refresh)])

\* the request carries  Authorization: Bearer <an access token the server issues>
Authorized(request) ==
    /\ "Authorization" \in DOMAIN request.headers
    /\ \E p \in TokenPairs : request.headers["Authorization"] = "Bearer " \o p[1]

\* everything the server can answer to a request that was sent
ServerAnswers(request) ==
    CASE request.method = "POST" /\ request.url = LoginUrl ->
            {JsonResponse(200, LoginPayload(p[1], p[2])) : p \in TokenPairs}
            \cup {JsonResponse(400, Message("Invalid credentials")),
                  TextResponse(502, "Bad Gateway")}
      [] request.method = "GET" /\ request.url = MeUrl ->
            IF Authorized(request)
            THEN {JsonResponse(200, UserPayload(loginData))}
            ELSE {JsonResponse(401, Message("Invalid/Expired Token!"))}
      [] request.method = "POST" /\ request.url = RefreshUrl ->
            IF \E p \in TokenPairs : Get(request.body, "refreshToken") = Str(p[2])
            THEN {JsonResponse(200, TokenPayload(p[1], p[2])) : p \in TokenPairs}
            ELSE {JsonResponse(401, Message("Invalid refresh token"))}
      [] request.url = NotFoundUrl ->
            {JsonResponse(404, ErrorPayload("404", "Hello_Peter")),
             TextResponse(404, "Not Found")}
      [] OTHER ->
            {JsonResponse(200, Message("ok")),
             TextResponse(200, "ok"),
             TextResponse(404, "Not Found")}

WireAnswers(request) == ServerAnswers(request) \cup Faults

(***************************************************************************)
(* State                                                                   *)
(***************************************************************************)
VARIABLES
    pc,         \* pc[t]: phase of the authenticatedApiHelper fixture of test t
    trace,      \* trace[t]: the phases test t has entered, in order
    apiHelper,  \* apiHelper[t]: the fixture's local  apiHelper  (an object id)
    response,   \* response[t]: the fixture's local  response
    fixture,    \* fixture[t]: the object handed to  use  (an object id)
    heap,       \* heap[o]: the objects created so far
    inflight,   \* inflight[t]: the verb-method call test t is suspended in
    delivered,  \* delivered[t]: what the network answered to the last completed call
    last,       \* last[t]: outcome of the last completed call, as its caller sees it
    calls,      \* calls[t]: verb-method calls the consumer has made
    sent,       \* sent[t]: HTTP requests sent for test t
    loginSent,  \* loginSent[t]: login requests sent for test t
    teardowns,  \* teardowns[t]: times the code after  use  has run
    outcome,    \* outcome[t]: what the runner reports for test t
    checked,    \* checked[t]: the last schema validation of the test body
    plain,      \* plain[t]: the object the apiHelper fixture of test t handed to  use
    plainPc,    \* plainPc[t]: phase of the apiHelper fixture of test t
    requests,   \* requests[o]: who issued each request made on the ApiHelper o
    open,       \* open[t]: requests of test t sent and not yet answered
    credentials, \* the object imported from testData/loginUser.json
    capture,    \* the running call of captureResponseWhenPageLoad
    dom,        \* dom[c]: elements of the page that match the locator c
    counted,    \* the running call of expectCountGreaterThan
    alert       \* the running call of isAlertDisplayed

vars == <<pc, trace, apiHelper, response, fixture, heap, inflight, delivered,
          last, calls, sent, loginSent, teardowns, outcome, checked,
          plain, plainPc, requests, open, credentials,
          capture, dom, counted, alert>>

\* the state of the fixtures and of the page helper
fixtureVars == <<pc, trace, apiHelper, response, fixture, heap, inflight, delivered,
                 last, calls, sent, loginSent, teardowns, outcome, checked,
                 plain, plainPc, requests, open, credentials>>
pageVars == <<capture, dom, counted, alert>>

Idle == [kind |-> "idle"]
CaptureIdle == [pc |-> "idle"]
CountIdle == [pc |-> "idle"]
AlertIdle == [pc |-> "idle", calls |-> 0, dialogs |-> 0]
Locators == {".todo-list li", ".completed"}
NoAnswer == [kind |-> "none"]
NoCheck == [kind |-> "none"]

\* ClientState of a helper that keeps the token of the login made through it
ClientState_remembered(client) ==
    LET owners == {t \in Tests : apiHelper[t] = client /\
                                  IsString(Get(response[t], "accessToken"))}
    IN  IF owners = {} THEN <<>>
        ELSE [n \in {"Authorization"} |->
                 "Bearer " \o Get(response[CHOOSE t \in owners : TRUE], "accessToken").val]

\* the headers an ApiHelper instance adds from what it kept of earlier calls: none
ClientState(client) == <<>>

\* the request as sent through the instance  client
Through(client, request) ==
    LET kept == ClientState(client)
    IN  [request EXCEPT
           !.headers = [n \in DOMAIN kept \cup DOMAIN request.headers |->
                           IF n \in DOMAIN request.headers
                           THEN request.headers[n] ELSE kept[n]]]

Call(caller, client, args) ==
    [kind    |-> "call",
     caller  |-> caller,
     client  |-> client,
     args    |-> args,
     request |-> Through(client, VerbRequest(args.method, args.url, args.headers,
                                             args.body, args.queryParams))]

Args(method, url, headers, body, queryParams) ==
    [method |-> method, url |-> url, headers |-> headers, body |-> body,
     queryParams |-> queryParams]

Init ==
    /\ pc = [t \in Tests |-> "UNSTARTED"]
    /\ trace = [t \in Tests |-> <<"UNSTARTED">>]
    /\ apiHelper = [t \in Tests |-> NoObject]
    /\ response = [t \in Tests |-> Undefined]
    /\ fixture = [t \in Tests |-> NoObject]
    /\ heap = <<>>
    /\ inflight = [t \in Tests |-> Idle]
    /\ delivered = [t \in Tests |-> NoAnswer]
    /\ last = [t \in Tests |-> NoResult]
    /\ calls = [t \in Tests |-> 0]
    /\ sent = [t \in Tests |-> 0]
    /\ loginSent = [t \in Tests |-> 0]
    /\ teardowns = [t \in Tests |-> 0]
    /\ outcome = [t \in Tests |-> "pending"]
    /\ checked = [t \in Tests |-> NoCheck]
    /\ plain = [t \in Tests |-> NoObject]
    /\ plainPc = [t \in Tests |-> "UNSTARTED"]
    /\ requests = <<>>
    /\ open = [t \in Tests |-> 0]
    /\ credentials = loginData
    /\ capture = CaptureIdle
    /\ dom = [c \in Locators |-> 0]
    /\ counted = CountIdle
    /\ alert = AlertIdle

\* phase change of test t
Enter(t, phase) ==
    /\ pc' = [pc EXCEPT ![t] = phase]
    /\ trace' = [trace EXCEPT ![t] = Append(@, phase)]

(***************************************************************************)
(* fixtures/api-fixture.ts : authenticatedApiHelper                        *)
(***************************************************************************)
\* the request log after  caller  issued one more request on the ApiHelper  o
Logged(log, o, caller) ==
    IF o \in DOMAIN log THEN [log EXCEPT ![o] = Append(@, caller)]
    ELSE log @@ (o :> <<caller>>)

\* NewApiHelper when the helper is one module-level instance shared by every fixture
NewApiHelper_shared(h) == 1

\* new ApiHelper(): the id of the object the constructor call yields
NewApiHelper(h) == Len(h) + 1

ApiHelperObject == [class |-> "ApiHelper", writtenBy |-> {}]

\* LoginArgs of a fixture that sends the credentials with the wrong verb
LoginArgs_get == Args("GET", LoginUrl, JsonHeaders, credentials, Undefined)

\* the login call of the fixture
LoginArgs == Args("POST", LoginUrl, JsonHeaders, credentials, Undefined)

\* FixtureSetup without the  await : the fixture goes on while the login is in flight
FixtureSetup_noAwait(t) ==
    /\ pc[t] = "UNSTARTED"
    /\ heap' = Append(heap, ApiHelperObject)
    /\ apiHelper' = [apiHelper EXCEPT ![t] = Len(heap) + 1]
    /\ inflight' = [inflight EXCEPT ![t] = Call("fixture", Len(heap) + 1, LoginArgs)]
    /\ sent' = [sent EXCEPT ![t] = @ + 1]
    /\ loginSent' = [loginSent EXCEPT ![t] = @ + 1]
    /\ Enter(t, "READY")
    /\ requests' = Logged(requests, Len(heap) + 1, "fixture")
    /\ open' = [open EXCEPT ![t] = @ + 1]
    /\ credentials' = BodyAfter(credentials)
    /\ UNCHANGED pageVars
    /\ UNCHANGED <<plain, plainPc, checked,
                   response, fixture, delivered, last, calls, teardowns, outcome>>

\* const apiHelper = new ApiHelper();  const response = await apiHelper.postRequest(...)
FixtureSetup(t) ==
    /\ pc[t] = "UNSTARTED"
    /\ LET o == NewApiHelper(heap)
       IN  /\ heap' = IF o \in DOMAIN heap THEN heap ELSE Append(heap, ApiHelperObject)
           /\ apiHelper' = [apiHelper EXCEPT ![t] = o]
           /\ inflight' = [inflight EXCEPT ![t] = Call("fixture", o, LoginArgs)]
    /\ sent' = [sent EXCEPT ![t] = @ + 1]
    /\ loginSent' = [loginSent EXCEPT ![t] = @ + 1]
    /\ Enter(t, "LOGGING_IN")
    /\ requests' = Logged(requests, NewApiHelper(heap), "fixture")
    /\ open' = [open EXCEPT ![t] = @ + 1]
    /\ credentials' = BodyAfter(credentials)
    /\ UNCHANGED pageVars
    /\ UNCHANGED <<plain, plainPc, checked,
                   response, fixture, delivered, last, calls, teardowns, outcome>>

\* the awaited postRequest resolves: the fixture resumes with its value
LoginResolves(t, wire) ==
    /\ pc[t] = "LOGGING_IN"
    /\ inflight[t].kind = "call"
    /\ wire \in WireAnswers(inflight[t].request)
    /\ Complete(wire).kind = "return"
    /\ response' = [response EXCEPT ![t] = Complete(wire).value]
    /\ delivered' = [delivered EXCEPT ![t] = wire]
    /\ last' = [last EXCEPT ![t] = Complete(wire)]
    /\ inflight' = [inflight EXCEPT ![t] = Idle]
    /\ Enter(t, "READY")
    /\ open' = [open EXCEPT ![t] = @ - 1]
    /\ UNCHANGED pageVars
    /\ UNCHANGED <<plain, plainPc, requests, credentials, checked,
                   apiHelper, fixture, heap, calls, sent, loginSent,
                   teardowns, outcome>>

\* LoginThrows inside a try/catch: the fixture goes on with no response
LoginThrows_swallowed(t, wire) ==
    /\ pc[t] = "LOGGING_IN"
    /\ inflight[t].kind = "call"
    /\ wire \in WireAnswers(inflight[t].request)
    /\ Complete(wire).kind = "throw"
    /\ delivered' = [delivered EXCEPT ![t] = wire]
    /\ last' = [last EXCEPT ![t] = Return(Undefined)]
    /\ inflight' = [inflight EXCEPT ![t] = Idle]
    /\ Enter(t, "READY")
    /\ open' = [open EXCEPT ![t] = @ - 1]
    /\ UNCHANGED pageVars
    /\ UNCHANGED <<plain, plainPc, requests, credentials, checked,
                   apiHelper, response, fixture, heap, calls, sent, loginSent,
                   teardowns, outcome>>

\* LoginThrows with a retry: the fixture sends the login again after a failure
LoginThrows_retry(t, wire) ==
    /\ pc[t] = "LOGGING_IN"
    /\ inflight[t].kind = "call"
    /\ wire \in WireAnswers(inflight[t].request)
    /\ Complete(wire).kind = "throw"
    /\ loginSent[t] < 2
    /\ delivered' = [delivered EXCEPT ![t] = wire]
    /\ last' = [last EXCEPT ![t] = Complete(wire)]
    /\ sent' = [sent EXCEPT ![t] = @ + 1]
    /\ loginSent' = [loginSent EXCEPT ![t] = @ + 1]
    /\ requests' = Logged(requests, inflight[t].client, "fixture")
    /\ UNCHANGED pageVars
    /\ UNCHANGED <<plain, plainPc, open, credentials, checked,
                   pc, trace, apiHelper, response, fixture, heap, inflight,
                   calls, teardowns, outcome>>

\* the awaited postRequest rejects: nothing catches it, the fixture function rejects
LoginThrows(t, wire) ==
    /\ pc[t] = "LOGGING_IN"
    /\ inflight[t].kind = "call"
    /\ wire \in WireAnswers(inflight[t].request)
    /\ Complete(wire).kind = "throw"
    /\ delivered' = [delivered EXCEPT ![t] = wire]
    /\ last' = [last EXCEPT ![t] = Complete(wire)]
    /\ inflight' = [inflight EXCEPT ![t] = Idle]
    /\ Enter(t, "FAILED")
    /\ open' = [open EXCEPT ![t] = @ - 1]
    /\ UNCHANGED pageVars
    /\ UNCHANGED <<plain, plainPc, requests, credentials, checked,
                   apiHelper, response, fixture, heap, calls, sent, loginSent,
                   teardowns, outcome>>

\* SetupFails that goes on to the test body after a failed login
SetupFails_continue(t) ==
    /\ pc[t] = "FAILED"
    /\ Enter(t, "READY")
    /\ UNCHANGED pageVars
    /\ UNCHANGED <<plain, plainPc, requests, open, credentials, checked,
                   apiHelper, response, fixture, heap, inflight, delivered, last,
                   calls, sent, loginSent, teardowns, outcome>>

\* the runner reports the rejected fixture; the test body is not run
SetupFails(t) ==
    /\ pc[t] = "FAILED"
    /\ outcome' = [outcome EXCEPT ![t] = "setupError"]
    /\ Enter(t, "DONE")
    /\ UNCHANGED pageVars
    /\ UNCHANGED <<plain, plainPc, requests, open, credentials, checked,
                   apiHelper, response, fixture, heap, inflight, delivered, last, calls,
                   sent, loginSent, teardowns>>

\* FixtureValue with the two token properties read from each other's field
FixtureValue_swapped(helper, resp) ==
    [class        |-> "authenticatedApiHelper",
     helper       |-> helper,
     accessToken  |-> Get(resp, "refreshToken"),
     refreshToken |-> Get(resp, "accessToken"),
     response     |-> resp,
     writtenBy    |-> {}]

\* the object literal passed to  use
FixtureValue(helper, resp) ==
    [class        |-> "authenticatedApiHelper",
     helper       |-> helper,
     accessToken  |-> Get(resp, "accessToken"),
     refreshToken |-> Get(resp, "refreshToken"),
     response     |-> resp,
     writtenBy    |-> {}]

\* await use({ helper, accessToken, refreshToken, response }): the test body starts
UseFixture(t) ==
    /\ pc[t] = "READY"
    /\ heap' = Append(heap, FixtureValue(apiHelper[t], response[t]))
    /\ fixture' = [fixture EXCEPT ![t] = Len(heap) + 1]
    /\ Enter(t, "CONSUMER")
    /\ UNCHANGED pageVars
    /\ UNCHANGED <<plain, plainPc, requests, open, credentials, checked,
                   apiHelper, response, inflight, delivered, last, calls, sent, loginSent,
                   teardowns, outcome>>

(***************************************************************************)
(* fixtures/api-fixture.ts : apiHelper                                     *)
(***************************************************************************)
\* the request log once the ApiHelper  o  exists
Fresh(log, o) == IF o \in DOMAIN log THEN log ELSE log @@ (o :> <<>>)

\* the apiHelper fixture may be set up before the authenticatedApiHelper fixture
\* of the same test starts, or after that one has reached its  use
MaySetUp(t) == pc[t] \in {"UNSTARTED", "CONSUMER"} /\ calls[t] = 0

\* PlainSetup of a fixture that logs in on the helper before handing it out
PlainSetup_login(t) ==
    /\ plainPc[t] = "UNSTARTED"
    /\ MaySetUp(t)
    /\ LET o == NewApiHelper(heap)
       IN  /\ heap' = IF o \in DOMAIN heap THEN heap ELSE Append(heap, ApiHelperObject)
           /\ plain' = [plain EXCEPT ![t] = o]
           /\ requests' = Logged(requests, o, "fixture")
    /\ sent' = [sent EXCEPT ![t] = @ + 1]
    /\ plainPc' = [plainPc EXCEPT ![t] = "USED"]
    /\ UNCHANGED pageVars
    /\ UNCHANGED <<pc, trace, apiHelper, response, fixture, inflight,
                   delivered, last, calls, loginSent, teardowns, outcome,
                   checked, open, credentials>>

\* PlainSetup of a fixture that hands out the helper the other fixture made
PlainSetup_reuse(t) ==
    /\ plainPc[t] = "UNSTARTED"
    /\ MaySetUp(t)
    /\ LET o == IF apiHelper[t] /= NoObject THEN apiHelper[t] ELSE NewApiHelper(heap)
       IN  /\ heap' = IF o \in DOMAIN heap THEN heap ELSE Append(heap, ApiHelperObject)
           /\ plain' = [plain EXCEPT ![t] = o]
           /\ requests' = Fresh(requests, o)
    /\ plainPc' = [plainPc EXCEPT ![t] = "USED"]
    /\ UNCHANGED pageVars
    /\ UNCHANGED <<pc, trace, apiHelper, response, fixture, inflight,
                   delivered, last, calls, sent, loginSent, teardowns,
                   outcome, checked, open, credentials>>

\* const apiHelper = new ApiHelper();  await use(apiHelper);
PlainSetup(t) ==
    /\ plainPc[t] = "UNSTARTED"
    /\ MaySetUp(t)
    /\ LET o == NewApiHelper(heap)
       IN  /\ heap' = IF o \in DOMAIN heap THEN heap ELSE Append(heap, ApiHelperObject)
           /\ plain' = [plain EXCEPT ![t] = o]
           /\ requests' = Fresh(requests, o)
    /\ plainPc' = [plainPc EXCEPT ![t] = "USED"]
    /\ UNCHANGED pageVars
    /\ UNCHANGED <<pc, trace, apiHelper, response, fixture, inflight,
                   delivered, last, calls, sent, loginSent, teardowns,
                   outcome, checked, open, credentials>>

\* use  has resolved: the fixture function returns
PlainTeardown(t) ==
    /\ plainPc[t] = "USED"
    /\ pc[t] \in {"TEARDOWN", "DONE"}
    /\ plainPc' = [plainPc EXCEPT ![t] = "DONE"]
    /\ UNCHANGED pageVars
    /\ UNCHANGED <<pc, trace, apiHelper, response, fixture, heap, inflight,
                   delivered, last, calls, sent, loginSent, teardowns,
                   outcome, checked, plain, requests, open, credentials>>

(***************************************************************************)
(* LOGIN_API_SCHEMA (tests/demo-todo-app.spec.ts): a strict object schema  *)
(***************************************************************************)
\* the strings of the model that are e-mail addresses, and those that are URLs
Emails == {"emily.johnson@x.dummyjson.com"}
Urls == {"https://dummyjson.com/icon/emilys/128", "https://dummyjson.com/auth/me"}
Genders == {"male", "female"}

\* Shape of a schema that declares  id: z.string()
Shape_idString(name) ==
    CASE name = "email"  -> "email"
      [] name = "gender" -> "enum"
      [] name = "image"  -> "url"
      [] OTHER           -> "string"

\* the declared type of each of the nine keys
Shape(name) ==
    CASE name = "id"     -> "number"
      [] name = "email"  -> "email"
      [] name = "gender" -> "enum"
      [] name = "image"  -> "url"
      [] OTHER           -> "string"

NoIssue == "none"

\* what the type declared for  name  finds wrong with the value  v
FieldIssue(name, v) ==
    LET kind == Shape(name)
    IN  CASE kind = "number" ->
                 IF v.type = "number" THEN NoIssue ELSE "invalid_type"
          [] kind = "enum" ->
                 IF ~IsString(v) THEN "invalid_type"
                 ELSE IF v.val \in Genders THEN NoIssue ELSE "invalid_enum_value"
          [] kind = "email" ->
                 IF ~IsString(v) THEN "invalid_type"
                 ELSE IF v.val \in Emails THEN NoIssue ELSE "invalid_string"
          [] kind = "url" ->
                 IF ~IsString(v) THEN "invalid_type"
                 ELSE IF v.val \in Urls THEN NoIssue ELSE "invalid_string"
          [] OTHER ->
                 IF IsString(v) THEN NoIssue ELSE "invalid_type"

Issue(path, code, keys) == [path |-> path, code |-> code, keys |-> keys]

\* Unrecognized of an object schema without .strict(): unknown keys are stripped
Unrecognized_strip(input) == {}

\* .strict(): the keys of the input that the schema does not declare
Unrecognized(input) == DOMAIN input.fields \ LoginFields

\* every key is checked, a missing key as the value undefined
KeyIssues(input) ==
    {Issue(n, FieldIssue(n, Get(input, n)), {}) :
        n \in {m \in LoginFields : FieldIssue(m, Get(input, m)) /= NoIssue}}

\* Issues of a parser that stops at the first key that does not conform
Issues_firstOnly(input) ==
    IF ~IsObject(input) THEN {Issue("", "invalid_type", {})}
    ELSE IF KeyIssues(input) /= {}
         THEN {CHOOSE i \in KeyIssues(input) : TRUE}
         ELSE IF Unrecognized(input) = {} THEN {}
              ELSE {Issue("", "unrecognized_keys", Unrecognized(input))}

\* all the issues of one parse: one per key that does not conform and one
\* naming the unrecognized keys
Issues(input) ==
    IF ~IsObject(input) THEN {Issue("", "invalid_type", {})}
    ELSE KeyIssues(input) \cup
         (IF Unrecognized(input) = {} THEN {}
          ELSE {Issue("", "unrecognized_keys", Unrecognized(input))})

Valid(value) == [kind |-> "valid", value |-> value]
ZodError(issues) == [kind |-> "ZodError", issues |-> issues]

\* LOGIN_API_SCHEMA.parse(input): the parsed object, built key by key, or a
\* thrown ZodError
parse(input) ==
    IF Issues(input) = {}
    THEN Valid(Obj([n \in LoginFields |-> input.fields[n]]))
    ELSE ZodError(Issues(input))

\* payloads a test body may hand to the schema
DropSets == {{}, {"email"}, {"email", "id"}, {"accessToken", "refreshToken", "image"}}
ExtraSets == {{}, {"token"}, {"token", "role"}}

\* values that do not conform, per key
WrongFor(name) ==
    CASE name = "id"     -> {Str("1")}
      [] name = "gender" -> {Str("other"), Num(0)}
      [] name = "email"  -> {Str("not-an-email")}
      [] name = "image"  -> {Str("nope")}
      [] OTHER           -> {Num(7)}

WrongSets == {{}, {"gender"}, {"id", "email"}, {"image", "username"}}

\* values that conform though they are not the ones of the login answer
OtherFor(name) ==
    CASE name = "id"     -> Num(2)
      [] name = "gender" -> Str("male")
      [] name = "image"  -> Str("https://dummyjson.com/auth/me")
      [] OTHER           -> Str("emily.johnson@x.dummyjson.com")

Payload(drop, wrong, value, extra) ==
    LET base == LoginPayload("accA", "refA").fields
    IN  Obj([n \in (LoginFields \ drop) \cup extra |->
                IF n \in extra THEN Str("x")
                ELSE IF n \in wrong THEN value[n]
                ELSE base[n]])

PayloadSamples ==
    {Payload(d, w, v, e) :
        d \in DropSets, e \in ExtraSets,
        w \in WrongSets, v \in {[n \in LoginFields |->
                                    IF n = "gender" THEN Str("other")
                                    ELSE CHOOSE x \in WrongFor(n) : TRUE],
                                [n \in LoginFields |->
                                    IF n = "gender" THEN Num(0)
                                    ELSE CHOOSE x \in WrongFor(n) : TRUE]}}
    \cup {Payload({}, LoginFields, [n \in LoginFields |-> OtherFor(n)], e) : e \in ExtraSets}
    \cup {Undefined, Str("emilys")}

(***************************************************************************)
(* The test body (consumer) and the runner's  use                          *)
(***************************************************************************)
\* `${token}` in a template literal
TokenText(v) == IF IsString(v) THEN v.val ELSE "undefined"

Bearer(token) ==
    Headers([n \in {"Authorization"} |-> "Bearer " \o TokenText(token)])

\* the calls the API tests make with the fixture value  f
SuiteArgs(f) ==
    {Args("GET", MeUrl, Bearer(f.accessToken), Undefined, Undefined),
     Args("POST", RefreshUrl, JsonHeaders,
          Obj([n \in {"refreshToken"} |-> f.refreshToken]), Undefined),
     Args("GET", NotFoundUrl, Undefined, Undefined, Undefined)}

\* query parameter mappings a caller may pass
QuerySamples ==
    {Undefined,
     QueryParams(<<>>),
     QueryParams(<<<<"page", Num(1)>>, <<"limit", Num(10)>>>>),
     QueryParams(<<<<"limit", Num(10)>>, <<"page", Num(1)>>>>),
     QueryParams(<<<<"q", Text(<<"a", " ", "b">>)>>>>),
     QueryParams(<<<<"q", Text(<<"a", "&", "b", "=", "c">>)>>, <<"n", Num(205)>>,
                   <<"path", Text(<<"/", "x", "?", "+">>)>>>>)}

\* header mappings a caller may pass
HeaderSamples ==
    {Undefined,
     JsonHeaders,
     Headers([n \in {"Content-Type"} |-> "text/plain"]),
     Headers([n \in {"X-Trace"} |-> "abc"]),
     Headers([n \in {"Content-Type", "X-Trace", "Accept"} |->
                 CASE n = "Content-Type" -> "application/xml"
                   [] n = "X-Trace"      -> "abc"
                   [] n = "Accept"       -> "*/*"])}

\* any call of any verb method
AnyArgs ==
    {Args(m, u, h, b, q) :
        m \in Verbs, u \in {UsersUrl, NotFoundUrl},
        h \in HeaderSamples, b \in {Undefined, loginData},
        q \in QuerySamples}

\* Invoke of a test body that does not await its calls: it calls again while one runs
Invoke_noAwait(t, args) ==
    /\ pc[t] = "CONSUMER"
    /\ inflight' = [inflight EXCEPT
                       ![t] = Call("consumer", heap[fixture[t]].helper, args)]
    /\ calls' = [calls EXCEPT ![t] = @ + 1]
    /\ sent' = [sent EXCEPT ![t] = @ + 1]
    /\ requests' = Logged(requests, heap[fixture[t]].helper, "consumer")
    /\ open' = [open EXCEPT ![t] = @ + 1]
    /\ UNCHANGED pageVars
    /\ UNCHANGED <<plain, plainPc, credentials, checked,
                   pc, trace, apiHelper, response, fixture, heap, delivered, last,
                   loginSent, teardowns, outcome>>

\* a verb method is called on the helper of the fixture value: the request is sent
\* and the caller is suspended until the round trip resolves
Invoke(t, args) ==
    /\ pc[t] = "CONSUMER"
    /\ inflight[t] = Idle
    /\ inflight' = [inflight EXCEPT
                       ![t] = Call("consumer", heap[fixture[t]].helper, args)]
    /\ calls' = [calls EXCEPT ![t] = @ + 1]
    /\ sent' = [sent EXCEPT ![t] = @ + 1]
    /\ requests' = Logged(requests, heap[fixture[t]].helper, "consumer")
    /\ open' = [open EXCEPT ![t] = @ + 1]
    /\ UNCHANGED pageVars
    /\ UNCHANGED <<plain, plainPc, credentials, checked,
                   pc, trace, apiHelper, response, fixture, heap, delivered, last,
                   loginSent, teardowns, outcome>>

\* a test body of the suite: it makes the one call of its test
SuiteCall(t, args) ==
    /\ calls[t] = 0
    /\ Invoke(t, args)

\* any consumer: it makes any call, any number of times
ConsumerCall(t, args) ==
    /\ calls[t] < MaxCalls
    /\ Invoke(t, args)

\* calls a test body makes on the helper of the apiHelper fixture
PublicArgs ==
    {Args("GET", UsersUrl, Undefined, Undefined, Undefined),
     Args("GET", NotFoundUrl, Undefined, Undefined, Undefined)}

\* the body of a test that asked for both fixtures calls a verb method of  apiHelper
PlainCall(t, args) ==
    /\ pc[t] = "CONSUMER"
    /\ plainPc[t] = "USED"
    /\ inflight[t] = Idle
    /\ calls[t] < MaxCalls
    /\ inflight' = [inflight EXCEPT ![t] = Call("consumer", plain[t], args)]
    /\ calls' = [calls EXCEPT ![t] = @ + 1]
    /\ sent' = [sent EXCEPT ![t] = @ + 1]
    /\ requests' = Logged(requests, plain[t], "consumer")
    /\ open' = [open EXCEPT ![t] = @ + 1]
    /\ UNCHANGED pageVars
    /\ UNCHANGED <<pc, trace, apiHelper, response, fixture, heap, delivered,
                   last, loginSent, teardowns, outcome, checked, plain,
                   plainPc, credentials>>

\* the body of a test that asked for both fixtures starts when both are set up
BothCall(t, args) ==
    /\ plainPc[t] = "USED"
    /\ ConsumerCall(t, args)

\* CallCompletes of a helper that sends the request again after a transport fault
CallCompletes_retry(t, wire) ==
    /\ pc[t] = "CONSUMER"
    /\ inflight[t] /= Idle
    /\ wire \in WireAnswers(inflight[t].request)
    /\ IF wire.kind = "fault" /\ sent[t] < MaxCalls + 2
       THEN /\ sent' = [sent EXCEPT ![t] = @ + 1]
            /\ requests' = Logged(requests, inflight[t].client, "consumer")
            /\ UNCHANGED <<delivered, last, inflight, open>>
       ELSE /\ delivered' = [delivered EXCEPT ![t] = wire]
            /\ last' = [last EXCEPT ![t] = Complete(wire)]
            /\ inflight' = [inflight EXCEPT ![t] = Idle]
            /\ open' = [open EXCEPT ![t] = @ - 1]
            /\ UNCHANGED <<sent, requests>>
    /\ UNCHANGED pageVars
    /\ UNCHANGED <<plain, plainPc, credentials, checked,
                   pc, trace, apiHelper, response, fixture, heap, calls,
                   loginSent, teardowns, outcome>>

\* the awaited call completes: the test body resumes with a value or an exception
CallCompletes(t, wire) ==
    /\ pc[t] = "CONSUMER"
    /\ inflight[t] /= Idle
    /\ wire \in WireAnswers(inflight[t].request)
    /\ delivered' = [delivered EXCEPT ![t] = wire]
    /\ last' = [last EXCEPT ![t] = Complete(wire)]
    /\ inflight' = [inflight EXCEPT ![t] = Idle]
    /\ open' = [open EXCEPT ![t] = @ - 1]
    /\ UNCHANGED pageVars
    /\ UNCHANGED <<plain, plainPc, requests, credentials, checked,
                   pc, trace, apiHelper, response, fixture, heap, calls, sent,
                   loginSent, teardowns, outcome>>

\* the test body writes to an object it was given (its fixture value or the helper)
ConsumerWrite(t, o) ==
    /\ pc[t] = "CONSUMER"
    /\ inflight[t] = Idle
    /\ fixture[t] /= NoObject
    /\ o \in {fixture[t], heap[fixture[t]].helper}
    /\ t \notin heap[o].writtenBy
    /\ heap' = [heap EXCEPT ![o].writtenBy = @ \cup {t}]
    /\ UNCHANGED pageVars
    /\ UNCHANGED <<plain, plainPc, requests, open, credentials, checked,
                   pc, trace, apiHelper, response, fixture, inflight, delivered, last,
                   calls, sent, loginSent, teardowns, outcome>>

\* expect(LOGIN_API_SCHEMA.parse(input)): the test body validates a payload
ConsumerValidate(t, input) ==
    /\ pc[t] = "CONSUMER"
    /\ inflight[t] = Idle
    /\ checked' = [checked EXCEPT ![t] =
                      [kind |-> "checked", input |-> input, result |-> parse(input)]]
    /\ UNCHANGED pageVars
    /\ UNCHANGED <<plain, plainPc, requests, open, credentials,
                   pc, trace, apiHelper, response, fixture, heap, inflight, delivered,
                   last, calls, sent, loginSent, teardowns, outcome>>

BodyEnds == {"passed", "assertionFailed", "fault"}

\* AfterConsumer when a failing test body makes  use  reject: the code after it is skipped
AfterConsumer_rethrow(how) == IF how = "passed" THEN "TEARDOWN" ELSE "DONE"

\* use  resolves when the test body has finished, however it finished
AfterConsumer(how) == "TEARDOWN"

\* the test body finishes (its locals go out of scope)
ConsumerEnd(t, how) ==
    /\ pc[t] = "CONSUMER"
    /\ inflight[t] = Idle
    /\ how \in BodyEnds
    /\ outcome' = [outcome EXCEPT ![t] = how]
    /\ delivered' = [delivered EXCEPT ![t] = NoAnswer]
    /\ last' = [last EXCEPT ![t] = NoResult]
    /\ checked' = [checked EXCEPT ![t] = NoCheck]
    /\ Enter(t, AfterConsumer(how))
    /\ UNCHANGED pageVars
    /\ UNCHANGED <<plain, plainPc, requests, open, credentials,
                   apiHelper, response, fixture, heap, inflight, calls,
                   sent, loginSent, teardowns>>

BothEnd(t, how) ==
    /\ plainPc[t] = "USED"
    /\ ConsumerEnd(t, how)

\* the code after  await use(...)  runs and the fixture function returns
Teardown(t) ==
    /\ pc[t] = "TEARDOWN"
    /\ teardowns' = [teardowns EXCEPT ![t] = @ + 1]
    /\ Enter(t, "DONE")
    /\ UNCHANGED pageVars
    /\ UNCHANGED <<plain, plainPc, requests, open, credentials, checked,
                   apiHelper, response, fixture, heap, inflight, delivered, last, calls,
                   sent, loginSent, outcome>>

(***************************************************************************)
(* helpers/page.ts : InitializationPage.captureResponseWhenPageLoad        *)
(***************************************************************************)
Null == [type |-> "null"]

\* s.includes(needle), both given character by character
Includes(s, needle) ==
    \E i \in 0..(Len(s) - Len(needle)) : SubSeq(s, i + 1, i + Len(needle)) = needle

\* if (secondRequestUrl): undefined and the empty string are not a second URL
Truthy(v) == v.type = "text" /\ v.chars /= <<>>

\* the responses the page may receive
PageUrls ==
    {<<"h", "/", "t", "/">>, <<"h", "/", "t">>, <<"h", "/", "a", "p", "i">>,
     <<"h", "/", "t", "/", "a", "p", "i">>}

PageResponse(url, status, json) == [url |-> url, status |-> status, json |-> json]

PageResponses ==
    {PageResponse(u, st, j) : u \in PageUrls, st \in {200, 404}, j \in BOOLEAN}

NoResponse == PageResponse(<<>>, 0, FALSE)

\* the URL fragments the caller may wait for
RequestUrls == {Text(<<"/", "t", "/">>), Text(<<"a", "p", "i">>)}
SecondUrls == {Undefined, Text(<<>>), Text(<<"a", "p", "i">>), Text(<<"/", "t", "/">>)}

\* the predicate given to waitForResponse
Matches(resp, needle) == Includes(resp.url, needle.chars) /\ resp.status = 200

\* what the body of a response parses to when it is JSON
Body(resp) == Obj([n \in {"from"} |-> Text(resp.url)])

\* response.json()
Json(resp) == IF resp.json THEN Return(Body(resp)) ELSE Throw("SyntaxError")

\* TryJson without the try/catch around response.json()
TryJson_uncaught(resp) ==
    IF Json(resp).kind = "return"
    THEN [threw |-> FALSE, data |-> Json(resp).value]
    ELSE [threw |-> TRUE, data |-> Null]

\* try { data = await response.json() } catch { log }: data stays null
TryJson(resp) ==
    IF Json(resp).kind = "return"
    THEN [threw |-> FALSE, data |-> Json(resp).value]
    ELSE [threw |-> FALSE, data |-> Null]

NoWaiter == [state |-> "none", response |-> NoResponse]
Pending == [state |-> "pending", response |-> NoResponse]

\* a waiter takes the first response that satisfies its predicate
Deliver(waiter, needle, resp) ==
    IF waiter.state = "pending" /\ Matches(resp, needle)
    THEN [state |-> "resolved", response |-> resp]
    ELSE waiter

Result(first, second) == [firstResponse |-> first, secondResponse |-> second]

Started(requestUrl, secondRequestUrl, first, second) ==
    [pc               |-> "awaitStep",
     requestUrl       |-> requestUrl,
     secondRequestUrl |-> secondRequestUrl,
     step             |-> "running",
     first            |-> first,
     second           |-> second,
     firstData        |-> Null,
     secondData       |-> Null,
     arrivals         |-> 0,
     event            |-> NoResponse,
     result           |-> Result(Null, Null),
     error            |-> "none"]

\* CaptureCall that has registered no waiter when it yields to the step
CaptureCall_late(requestUrl, secondRequestUrl) ==
    /\ capture.pc = "idle"
    /\ capture' = Started(requestUrl, secondRequestUrl, NoWaiter, NoWaiter)
    /\ UNCHANGED <<dom, counted, alert>>
    /\ UNCHANGED fixtureVars

\* the caller has started the step; the function registers the waiter for
\* requestUrl, and the one for secondRequestUrl if there is one, then awaits the step
CaptureCall(requestUrl, secondRequestUrl) ==
    /\ capture.pc = "idle"
    /\ capture' = Started(requestUrl, secondRequestUrl, Pending,
                          IF Truthy(secondRequestUrl) THEN Pending ELSE NoWaiter)
    /\ UNCHANGED <<dom, counted, alert>>
    /\ UNCHANGED fixtureVars

Running == {"awaitStep", "awaitFirst", "firstJson", "awaitSecond", "secondJson"}

\* the page receives a response: each waiter still pending tests it
ResponseArrives(resp) ==
    /\ capture.pc \in Running
    /\ capture.arrivals < MaxArrivals
    /\ capture' = [capture EXCEPT
                      !.first = Deliver(@, capture.requestUrl, resp),
                      !.second = Deliver(@, capture.secondRequestUrl, resp),
                      !.event = resp,
                      !.arrivals = @ + 1]
    /\ UNCHANGED <<dom, counted, alert>>
    /\ UNCHANGED fixtureVars

\* await step: the step is over
StepResolves ==
    /\ capture.pc = "awaitStep"
    /\ capture' = [capture EXCEPT !.step = "resolved", !.pc = "awaitFirst"]
    /\ UNCHANGED <<dom, counted, alert>>
    /\ UNCHANGED fixtureVars

\* await step: the step rejects and the function rejects with it
StepRejects ==
    /\ capture.pc = "awaitStep"
    /\ capture' = [capture EXCEPT !.step = "rejected", !.pc = "thrown", !.error = "step"]
    /\ UNCHANGED <<dom, counted, alert>>
    /\ UNCHANGED fixtureVars

\* the time limit of a waiter ends with no matching response; the step, a
\* navigation with the same limit that started first, is over by then
WaitEnds(which) ==
    /\ capture.pc \in Running
    /\ capture.step = "resolved"
    /\ capture[which].state = "pending"
    /\ capture' = [capture EXCEPT ![which].state = "rejected"]
    /\ UNCHANGED <<dom, counted, alert>>
    /\ UNCHANGED fixtureVars

\* const firstResponse = await firstResponsePromise
FirstResumes ==
    /\ capture.pc = "awaitFirst"
    /\ capture.first.state = "resolved"
    /\ capture' = [capture EXCEPT !.pc = "firstJson"]
    /\ UNCHANGED <<dom, counted, alert>>
    /\ UNCHANGED fixtureVars

FirstThrows ==
    /\ capture.pc = "awaitFirst"
    /\ capture.first.state = "rejected"
    /\ capture' = [capture EXCEPT !.pc = "thrown", !.error = "TimeoutError"]
    /\ UNCHANGED <<dom, counted, alert>>
    /\ UNCHANGED fixtureVars

\* firstResponse.json() settles; with no second waiter the function returns
FirstJson ==
    /\ capture.pc = "firstJson"
    /\ LET parsed == TryJson(capture.first.response)
       IN  capture' =
             IF parsed.threw
             THEN [capture EXCEPT !.pc = "thrown", !.error = "SyntaxError"]
             ELSE IF capture.second.state /= "none"
             THEN [capture EXCEPT !.firstData = parsed.data, !.pc = "awaitSecond"]
             ELSE [capture EXCEPT !.firstData = parsed.data, !.pc = "returned",
                                  !.result = Result(parsed.data, capture.secondData)]
    /\ UNCHANGED <<dom, counted, alert>>
    /\ UNCHANGED fixtureVars

\* const secondResponse = await secondResponsePromise
SecondResumes ==
    /\ capture.pc = "awaitSecond"
    /\ capture.second.state = "resolved"
    /\ capture' = [capture EXCEPT !.pc = "secondJson"]
    /\ UNCHANGED <<dom, counted, alert>>
    /\ UNCHANGED fixtureVars

SecondThrows ==
    /\ capture.pc = "awaitSecond"
    /\ capture.second.state = "rejected"
    /\ capture' = [capture EXCEPT !.pc = "thrown", !.error = "TimeoutError"]
    /\ UNCHANGED <<dom, counted, alert>>
    /\ UNCHANGED fixtureVars

\* secondResponse.json() settles and the function returns both values
SecondJson ==
    /\ capture.pc = "secondJson"
    /\ LET parsed == TryJson(capture.second.response)
       IN  capture' =
             IF parsed.threw
             THEN [capture EXCEPT !.pc = "thrown", !.error = "SyntaxError"]
             ELSE [capture EXCEPT !.secondData = parsed.data, !.pc = "returned",
                                  !.result = Result(capture.firstData, parsed.data)]
    /\ UNCHANGED <<dom, counted, alert>>
    /\ UNCHANGED fixtureVars

(***************************************************************************)
(* helpers/page.ts : InitializationPage.expectCountGreaterThan             *)
(***************************************************************************)
\* the page gains or loses an element that matches the locator c
DomAdds(c) ==
    /\ dom[c] < MaxElements
    /\ dom' = [dom EXCEPT ![c] = @ + 1]
    /\ UNCHANGED <<capture, counted, alert>>
    /\ UNCHANGED fixtureVars

DomRemoves(c) ==
    /\ dom[c] > 0
    /\ dom' = [dom EXCEPT ![c] = @ - 1]
    /\ UNCHANGED <<capture, counted, alert>>
    /\ UNCHANGED fixtureVars

\* expect(received).toBeGreaterThan(expected)
toBeGreaterThan(received, expected) == received > expected

\* getElementsCount(locator): this.page.locator(locator).count()
getElementsCount(locator) == dom[locator]

\* expectCountGreaterThan(locator, number) is called: it awaits the count
CountCall(locator, number) ==
    /\ counted.pc = "idle"
    /\ counted' = [pc |-> "awaitCount", locator |-> locator, number |-> number,
                   count |-> 0]
    /\ UNCHANGED <<capture, dom, alert>>
    /\ UNCHANGED fixtureVars

\* the count arrives: expect(number).toBeGreaterThan(count) passes or throws
CountSettles ==
    /\ counted.pc = "awaitCount"
    /\ LET count == getElementsCount(counted.locator)
       IN  counted' = [counted EXCEPT
                          !.count = count,
                          !.pc = IF toBeGreaterThan(counted.number, count)
                                 THEN "passed" ELSE "failed"]
    /\ UNCHANGED <<capture, dom, alert>>
    /\ UNCHANGED fixtureVars

(***************************************************************************)
(* helpers/page.ts : InitializationPage.isAlertDisplayed                   *)
(***************************************************************************)
DialogTypes == {"alert", "confirm", "prompt", "beforeunload"}
DialogMessages == {"", "Are you sure?"}
NoDialog == [type |-> "none", message |-> ""]

\* isAlertDisplayed is called: alertTriggered = false, then it awaits
\* page.waitForEvent("dialog", { timeout: 3000 }).catch(() => null)
AlertCall ==
    /\ alert.pc \in {"idle", "returned"}
    /\ alert.calls < MaxAlertCalls
    /\ alert' = [pc             |-> "waiting",
                 calls          |-> alert.calls + 1,
                 dialogs        |-> alert.dialogs,
                 seen           |-> FALSE,
                 waited         |-> "pending",
                 dialog         |-> NoDialog,
                 alertTriggered |-> FALSE,
                 dismissCalls   |-> 0,
                 closed         |-> 0,
                 dismissal      |-> "none",
                 logged         |-> "none",
                 result         |-> FALSE]
    /\ UNCHANGED <<capture, dom, counted>>
    /\ UNCHANGED fixtureVars

\* a dialog opens within the wait: the function logs it, sets alertTriggered
\* and awaits alert.dismiss()
DialogOpens(type, message) ==
    /\ alert.pc = "waiting"
    /\ alert' = [alert EXCEPT
                    !.pc = "dismissing",
                    !.dialogs = @ + 1,
                    !.seen = TRUE,
                    !.waited = "dialog",
                    !.dialog = [type |-> type, message |-> message],
                    !.alertTriggered = TRUE,
                    !.dismissCalls = @ + 1,
                    !.logged = "Alert Triggered"]
    /\ UNCHANGED <<capture, dom, counted>>
    /\ UNCHANGED fixtureVars

\* the wait rejects (no dialog within 3000 ms, or the page was closed): the
\* .catch turns it into null and the function returns alertTriggered
WaitFails(cause) ==
    /\ alert.pc = "waiting"
    /\ cause \in {"TimeoutError", "TargetClosedError"}
    /\ alert' = [alert EXCEPT
                    !.pc = "returned",
                    !.waited = cause,
                    !.logged = "No Alert Triggered",
                    !.result = alert.alertTriggered]
    /\ UNCHANGED <<capture, dom, counted>>
    /\ UNCHANGED fixtureVars

\* alert.dismiss() resolves: the dialog is closed and the function returns
DismissResolves ==
    /\ alert.pc = "dismissing"
    /\ alert' = [alert EXCEPT
                    !.pc = "returned",
                    !.closed = @ + 1,
                    !.dismissal = "resolved",
                    !.result = alert.alertTriggered]
    /\ UNCHANGED <<capture, dom, counted>>
    /\ UNCHANGED fixtureVars

\* DismissRejects without the try/catch: the rejection leaves the function
DismissRejects_uncaught(cause) ==
    /\ alert.pc = "dismissing"
    /\ cause \in {"TargetClosedError", "AlreadyHandled"}
    /\ alert' = [alert EXCEPT !.pc = "thrown", !.dismissal = cause]
    /\ UNCHANGED <<capture, dom, counted>>
    /\ UNCHANGED fixtureVars

\* alert.dismiss() rejects (the page was closed, or the dialog was already
\* handled): catch (e) logs the error and the function returns alertTriggered
DismissRejects(cause) ==
    /\ alert.pc = "dismissing"
    /\ cause \in {"TargetClosedError", "AlreadyHandled"}
    /\ alert' = [alert EXCEPT
                    !.pc = "returned",
                    !.dismissal = cause,
                    !.logged = "Error handling Alert",
                    !.result = alert.alertTriggered]
    /\ UNCHANGED <<capture, dom, counted>>
    /\ UNCHANGED fixtureVars

(***************************************************************************)
(* Specifications                                                          *)
(***************************************************************************)
\* the answers the network may deliver to the call test t is suspended in
Answers(t) ==
    IF inflight[t].kind = "call" THEN WireAnswers(inflight[t].request) ELSE {}

\* the calls the body of test t may make
Offered(t) ==
    IF fixture[t] /= NoObject THEN SuiteArgs(heap[fixture[t]]) ELSE {}

Next ==
    \E t \in Tests :
        \/ FixtureSetup(t)
        \/ \E wire \in Answers(t) : LoginResolves(t, wire)
        \/ \E wire \in Answers(t) : LoginThrows(t, wire)
        \/ SetupFails(t)
        \/ UseFixture(t)
        \/ \E args \in Offered(t) : SuiteCall(t, args)
        \/ \E wire \in Answers(t) : CallCompletes(t, wire)
        \/ \E o \in DOMAIN heap : ConsumerWrite(t, o)
        \/ \E how \in BodyEnds : ConsumerEnd(t, how)
        \/ Teardown(t)

Spec == Init /\ [][Next]_vars

\* one test case whose body uses the client in every way
NextClient ==
    \/ FixtureSetup(1)
    \/ \E wire \in Answers(1) : LoginResolves(1, wire)
    \/ \E wire \in Answers(1) : LoginThrows(1, wire)
    \/ SetupFails(1)
    \/ UseFixture(1)
    \/ \E args \in AnyArgs \cup Offered(1) : ConsumerCall(1, args)
    \/ \E wire \in Answers(1) : CallCompletes(1, wire)
    \/ \E o \in DOMAIN heap : ConsumerWrite(1, o)
    \/ \E how \in BodyEnds : ConsumerEnd(1, how)
    \/ Teardown(1)

SpecClient == Init /\ [][NextClient]_vars

\* what the test body was given as the login response
GivenResponse(t) ==
    IF fixture[t] /= NoObject THEN {heap[fixture[t]].response} ELSE {}

\* one test case whose body validates payloads against the schema
NextSchema ==
    \/ FixtureSetup(1)
    \/ \E wire \in Answers(1) : LoginResolves(1, wire)
    \/ \E wire \in Answers(1) : LoginThrows(1, wire)
    \/ SetupFails(1)
    \/ UseFixture(1)
    \/ \E input \in PayloadSamples \cup GivenResponse(1) : ConsumerValidate(1, input)
    \/ \E o \in DOMAIN heap : ConsumerWrite(1, o)
    \/ \E how \in BodyEnds : ConsumerEnd(1, how)
    \/ Teardown(1)

SpecSchema == Init /\ [][NextSchema]_vars

\* one test case that asks for both fixtures
NextBoth ==
    \/ PlainSetup(1)
    \/ FixtureSetup(1)
    \/ \E wire \in Answers(1) : LoginResolves(1, wire)
    \/ \E wire \in Answers(1) : LoginThrows(1, wire)
    \/ SetupFails(1)
    \/ UseFixture(1)
    \/ \E args \in Offered(1) : BothCall(1, args)
    \/ \E args \in PublicArgs : PlainCall(1, args)
    \/ \E wire \in Answers(1) : CallCompletes(1, wire)
    \/ \E how \in BodyEnds : BothEnd(1, how)
    \/ Teardown(1)
    \/ PlainTeardown(1)

SpecBoth == Init /\ [][NextBoth]_vars

\* one call of captureResponseWhenPageLoad and the responses the page receives
NextCapture ==
    \/ \E r \in RequestUrls, s \in SecondUrls : CaptureCall(r, s)
    \/ \E resp \in PageResponses : ResponseArrives(resp)
    \/ StepResolves
    \/ StepRejects
    \/ \E which \in {"first", "second"} : WaitEnds(which)
    \/ FirstResumes
    \/ FirstThrows
    \/ FirstJson
    \/ SecondResumes
    \/ SecondThrows
    \/ SecondJson

SpecCapture == Init /\ [][NextCapture]_vars

\* one call of expectCountGreaterThan on a page whose elements come and go
NextCount ==
    \/ \E c \in Locators : DomAdds(c)
    \/ \E c \in Locators : DomRemoves(c)
    \/ \E c \in Locators, n \in 0..MaxElements : CountCall(c, n)
    \/ CountSettles

SpecCount == Init /\ [][NextCount]_vars

\* calls of isAlertDisplayed, one after the other
NextAlert ==
    \/ AlertCall
    \/ \E type \in DialogTypes, message \in DialogMessages : DialogOpens(type, message)
    \/ \E cause \in {"TimeoutError", "TargetClosedError"} : WaitFails(cause)
    \/ DismissResolves
    \/ \E cause \in {"TargetClosedError", "AlreadyHandled"} : DismissRejects(cause)

SpecAlert == Init /\ [][NextAlert]_vars

(***************************************************************************)
(* Properties                                                              *)
(***************************************************************************)
SuccessPath == <<"UNSTARTED", "LOGGING_IN", "READY", "CONSUMER", "TEARDOWN", "DONE">>
FailurePath == <<"UNSTARTED", "LOGGING_IN", "FAILED", "DONE">>

IsPrefix(s, path) == Len(s) <= Len(path) /\ s = SubSeq(path, 1, Len(s))

Entered(t, phase) == \E i \in 1..Len(trace[t]) : trace[t][i] = phase

\* the login of test t threw: the last call completed by t is the fixture's and it threw
LoginThrew(t) == calls[t] = 0 /\ last[t].kind = "throw"

\* C1: the phases of a provisioning run are entered in the order UNSTARTED,
\* LOGGING_IN, READY, consumer, TEARDOWN, DONE, none twice and none skipped
\* unless the login throws; the login request has been sent and has completed
\* before the consumer starts, and teardown starts only after the body finished.
C1_PhaseOrder ==
    \A t \in Tests :
        /\ IsPrefix(trace[t], SuccessPath) \/ IsPrefix(trace[t], FailurePath)
        /\ pc[t] = trace[t][Len(trace[t])]
        /\ pc[t] \in {"READY", "CONSUMER", "TEARDOWN"} =>
              /\ loginSent[t] = 1
              /\ inflight[t].kind = "call" => inflight[t].caller = "consumer"
        /\ pc[t] = "READY" => inflight[t] = Idle /\ last[t].kind = "return"
        /\ pc[t] = "CONSUMER" => outcome[t] = "pending" /\ teardowns[t] = 0
        /\ pc[t] = "TEARDOWN" => inflight[t] = Idle /\ outcome[t] \in BodyEnds

C1_Witness ==
    /\ pc[1] = "DONE"
    /\ trace[1] = SuccessPath
    /\ outcome[1] = "passed"

C3_TeardownOnce ==
    \A t \in Tests :
        /\ teardowns[t] <= 1
        /\ teardowns[t] = 1 => Entered(t, "CONSUMER") /\ outcome[t] \in BodyEnds
        /\ (pc[t] = "DONE" /\ Entered(t, "CONSUMER")) => teardowns[t] = 1
        /\ (Entered(t, "CONSUMER") /\ outcome[t] \in BodyEnds /\ teardowns[t] = 0)
              => pc[t] = "TEARDOWN"

C3_Witness ==
    /\ pc[1] = "DONE" /\ outcome[1] = "fault" /\ teardowns[1] = 1
    /\ pc[2] = "DONE" /\ outcome[2] = "assertionFailed" /\ teardowns[2] = 1

\* the fixture value test t was given
Given(t) == heap[fixture[t]]

\* C4: whenever the test body runs with a fixture value, its accessToken and
\* refreshToken are strings, whatever the login call returned without throwing.
C4_TokensAreStrings ==
    \A t \in Tests :
        pc[t] = "CONSUMER" =>
            IsString(Given(t).accessToken) /\ IsString(Given(t).refreshToken)

\* C5: two provisioning runs each construct their own ApiHelper and send their
\* own login; the helper and the tokens a test body is given are the ones of its
\* own run, and no object a test body can reach was written by the other test.
C5_Isolation ==
    \A t \in Tests :
        /\ pc[t] /= "UNSTARTED" =>
              /\ apiHelper[t] \in DOMAIN heap
              /\ heap[apiHelper[t]].class = "ApiHelper"
              /\ loginSent[t] = 1
              /\ heap[apiHelper[t]].writtenBy \subseteq {t}
        /\ inflight[t].kind = "call" => inflight[t].client = apiHelper[t]
        /\ fixture[t] /= NoObject =>
              /\ Given(t).helper = apiHelper[t]
              /\ Given(t).response = response[t]
              /\ Given(t).writtenBy \subseteq {t}
        /\ \A u \in Tests \ {t} :
              /\ (apiHelper[t] /= NoObject /\ apiHelper[u] /= NoObject) =>
                    apiHelper[t] /= apiHelper[u]
              /\ (fixture[t] /= NoObject /\ fixture[u] /= NoObject) =>
                    /\ fixture[t] /= fixture[u]
                    /\ Given(t).helper /= Given(u).helper

C5_Witness ==
    /\ pc[1] = "CONSUMER" /\ pc[2] = "CONSUMER"
    /\ Given(1).accessToken = Str("accA") /\ Given(2).accessToken = Str("accB")
    /\ heap[Given(1).helper].writtenBy = {1}
    /\ Given(2).writtenBy = {2}
    /\ inflight[1].kind = "call" /\ inflight[2].kind = "call"

\* C6: each provisioning run sends exactly one login request: none before it
\* starts, one from then on, never a second one after a failed or a successful
\* login.
C6_OneLogin ==
    \A t \in Tests :
        /\ loginSent[t] = IF pc[t] = "UNSTARTED" THEN 0 ELSE 1
        /\ sent[t] = loginSent[t] + calls[t]
        /\ (inflight[t].kind = "call" /\ inflight[t].caller = "fixture") =>
              pc[t] = "LOGGING_IN"

C6_Witness ==
    /\ pc[1] = "DONE" /\ Entered(1, "FAILED") /\ loginSent[1] = 1
    /\ pc[2] = "DONE" /\ Entered(2, "CONSUMER") /\ loginSent[2] = 1

\* C7: the fixture value handed to the test body carries the login response's
\* accessToken as accessToken, its refreshToken as refreshToken, and the login
\* response itself, unchanged, as response.
C7_Verbatim ==
    \A t \in Tests :
        fixture[t] /= NoObject =>
            /\ Given(t).response = response[t]
            /\ Given(t).accessToken = Get(response[t], "accessToken")
            /\ Given(t).refreshToken = Get(response[t], "refreshToken")
            /\ \A p \in TokenPairs :
                  response[t] = LoginPayload(p[1], p[2]) =>
                      /\ Given(t).accessToken = Str(p[1])
                      /\ Given(t).refreshToken = Str(p[2])
            /\ pc[t] = "CONSUMER" /\ calls[t] = 0 =>
                  /\ last[t] = Return(response[t])
                  /\ delivered[t].kind = "response"
                  /\ delivered[t].json => response[t] = delivered[t].body

C7_Witness ==
    /\ pc[1] = "CONSUMER"
    /\ delivered[1] = JsonResponse(200, LoginPayload("accB", "refB"))
    /\ Given(1).accessToken = Str("accB")
    /\ Given(1).refreshToken = Str("refB")

NonSuccess(wire) == wire.kind = "response" /\ ~(wire.status \in 200..299)

C9_TransportError ==
    \A t \in Tests :
        delivered[t].kind = "fault" =>
            /\ last[t] = Throw("TransportError")
            /\ calls[t] = 0 =>
                  /\ pc[t] \in {"FAILED", "DONE"}
                  /\ response[t] = Undefined
                  /\ fixture[t] = NoObject
            /\ calls[t] > 0 => pc[t] = "CONSUMER"

C9_Witness ==
    /\ pc[1] = "CONSUMER"
    /\ calls[1] = 1
    /\ delivered[1] = Fault("timeout")
    /\ last[1] = Throw("TransportError")

\* the query string the claim describes: the entries key=encodeURIComponent(value)
\* in insertion order, each one after the first preceded by '&'
RECURSIVE EntriesUpTo(_, _)
EntriesUpTo(entries, k) ==
    IF k = 0 THEN ""
    ELSE EntriesUpTo(entries, k - 1) \o (IF k > 1 THEN "&" ELSE "")
         \o entries[k][1] \o "=" \o encodeURIComponent(entries[k][2])

PageLimit == QueryParams(<<<<"page", Num(1)>>, <<"limit", Num(10)>>>>)
Spaced == QueryParams(<<<<"q", Text(<<"a", " ", "b">>)>>>>)
Reserved ==
    QueryParams(<<<<"q", Text(<<"a", "&", "b", "=", "c">>)>>, <<"n", Num(205)>>,
                  <<"path", Text(<<"/", "x", "?", "+">>)>>>>)

\* C10: for every verb the URL requested is the given url when queryParams is
\* absent or empty, and otherwise the url, '?', and the entries
\* key=encodeURIComponent(value) joined by '&' in insertion order.
C10_QueryUrl ==
    \A t \in Tests :
        inflight[t].kind = "call" =>
            LET a == inflight[t].args
                sentUrl == inflight[t].request.url
                q == a.queryParams
            IN  /\ inflight[t].request.method = a.method
                /\ q = Undefined => sentUrl = a.url
                /\ (q /= Undefined /\ Len(q.entries) = 0) => sentUrl = a.url
                /\ (q /= Undefined /\ Len(q.entries) > 0) =>
                      sentUrl = a.url \o "?" \o EntriesUpTo(q.entries, Len(q.entries))
                /\ (a.url = UsersUrl /\ q = PageLimit) =>
                      sentUrl = "https://api.example.com/users?page=1&limit=10"
                /\ (a.url = UsersUrl /\ q = Spaced) =>
                      sentUrl = "https://api.example.com/users?q=a%20b"
                /\ (a.url = UsersUrl /\ q = Reserved) =>
                      sentUrl = "https://api.example.com/users?q=a%26b%3Dc&n=205&path=%2Fx%3F%2B"

C10_Witness ==
    /\ inflight[1].kind = "call"
    /\ inflight[1].args.method = "PATCH"
    /\ inflight[1].args.queryParams = PageLimit
    /\ inflight[1].request.url = "https://api.example.com/users?page=1&limit=10"

\* the headers the caller of the call in flight passed
GivenHeaders(t) ==
    IF inflight[t].args.headers = Undefined THEN <<>> ELSE inflight[t].args.headers.map

\* C11: a POST, PUT or PATCH call with a body sends Content-Type:
\* application/json when the caller gave no Content-Type, sends the caller's
\* Content-Type when the caller gave one, and sends every other caller header
\* as given.
C11_ContentType ==
    \A t \in Tests :
        (/\ inflight[t].kind = "call"
         /\ inflight[t].args.method \in {"POST", "PUT", "PATCH"}
         /\ inflight[t].args.body /= Undefined) =>
            LET sentHeaders == inflight[t].request.headers
            IN  /\ "Content-Type" \in DOMAIN sentHeaders
                /\ "Content-Type" \notin DOMAIN GivenHeaders(t) =>
                      sentHeaders["Content-Type"] = "application/json"
                /\ \A n \in DOMAIN GivenHeaders(t) :
                      n \in DOMAIN sentHeaders /\ sentHeaders[n] = GivenHeaders(t)[n]
                /\ DOMAIN sentHeaders = DOMAIN GivenHeaders(t) \cup {"Content-Type"}
                /\ inflight[t].request.body = inflight[t].args.body

C11_Witness ==
    /\ inflight[1].kind = "call"
    /\ inflight[1].args.method = "PATCH"
    /\ inflight[1].args.body = loginData
    /\ inflight[1].request.headers =
          [n \in {"Content-Type", "X-Trace", "Accept"} |->
              CASE n = "Content-Type" -> "application/xml"
                [] n = "X-Trace"      -> "abc"
                [] n = "Accept"       -> "*/*"]

\* C12: the client keeps no authentication state: every header a call sends
\* is a header the caller passed to this call, with the value passed, or the
\* Content-Type default of a call with a body; an Authorization header of an
\* earlier call, or a token of the login, is not sent unless passed again.
C12_Stateless ==
    \A t \in Tests :
        inflight[t].kind = "call" =>
            LET sentHeaders == inflight[t].request.headers
            IN  \A n \in DOMAIN sentHeaders :
                    \/ /\ n \in DOMAIN GivenHeaders(t)
                       /\ sentHeaders[n] = GivenHeaders(t)[n]
                    \/ /\ n = "Content-Type"
                       /\ n \notin DOMAIN GivenHeaders(t)
                       /\ sentHeaders[n] = "application/json"
                       /\ inflight[t].request.body /= Undefined

\* a call without Authorization is in flight on the client that made the login
\* and has just completed a call that carried  Authorization: Bearer <token>
C12_Witness ==
    /\ pc[1] = "CONSUMER"
    /\ IsString(Given(1).accessToken)
    /\ calls[1] = 2
    /\ delivered[1] = JsonResponse(200, UserPayload(loginData))
    /\ inflight[1].kind = "call"
    /\ inflight[1].client = apiHelper[1]
    /\ inflight[1].args.url = NotFoundUrl
    /\ inflight[1].args.headers = Undefined
    /\ "Authorization" \notin DOMAIN inflight[1].request.headers

\* C13: one invocation of a verb method sends exactly one HTTP request: the
\* request is sent when the method is called, no request is sent at any other
\* moment, and the call completes with an answer to that request, whether a
\* 2xx response, a non-2xx response or a transport fault.
C13_OneRequest ==
    [][\A t \in Tests :
          /\ (inflight[t] = Idle /\ inflight'[t].kind = "call") =>
                sent'[t] = sent[t] + 1
          /\ sent'[t] /= sent[t] =>
                inflight[t] = Idle /\ inflight'[t].kind = "call" /\ sent'[t] = sent[t] + 1
          /\ (inflight[t].kind = "call" /\ inflight'[t] = Idle) =>
                /\ sent'[t] = sent[t]
                /\ delivered'[t] \in WireAnswers(inflight[t].request)
          /\ delivered'[t] /= delivered[t] =>
                \/ inflight[t].kind = "call" /\ inflight'[t] = Idle
                \/ delivered'[t] = NoAnswer]_vars

C13_Witness ==
    /\ pc[1] = "CONSUMER"
    /\ calls[1] = 2
    /\ sent[1] = 3
    /\ inflight[1] = Idle
    /\ delivered[1] = Fault("reset")
    /\ last[1] = Throw("TransportError")

\* C14: a response whose body is not JSON-parseable does not make the call
\* fail: the call returns the raw response object (status, text); a response
\* whose body is JSON-parseable makes the call return the parsed body.
C14_RawOrParsed ==
    \A t \in Tests :
        delivered[t].kind = "response" =>
            /\ last[t].kind = "return"
            /\ delivered[t].json => last[t].value = delivered[t].body
            /\ ~delivered[t].json =>
                  /\ IsObject(last[t].value)
                  /\ DOMAIN last[t].value.fields = {"status", "text"}
                  /\ last[t].value.fields["status"] = Num(delivered[t].status)
                  /\ last[t].value.fields["text"] = Str(delivered[t].text)

C14_Witness ==
    /\ pc[1] = "CONSUMER"
    /\ calls[1] = 1
    /\ delivered[1] = TextResponse(200, "ok")
    /\ last[1].kind = "return"
    /\ Get(last[1].value, "text") = Str("ok")

\* C15: the login call of a provisioning run is a POST to
\* https://dummyjson.com/auth/login with the credentials {username, password}
\* as its body, Content-Type: application/json among its headers and no query
\* parameters, made on the ApiHelper that this run constructed.
C15_LoginCall ==
    \A t \in Tests :
        /\ pc[t] = "LOGGING_IN" =>
              inflight[t].kind = "call" /\ inflight[t].caller = "fixture"
        /\ (inflight[t].kind = "call" /\ inflight[t].caller = "fixture") =>
              /\ inflight[t].request.method = "POST"
              /\ inflight[t].request.url = "https://dummyjson.com/auth/login"
              /\ IsObject(inflight[t].request.body)
              /\ DOMAIN inflight[t].request.body.fields = {"username", "password"}
              /\ inflight[t].request.body.fields["username"] = Str("emilys")
              /\ inflight[t].request.body.fields["password"] = Str("emilyspass")
              /\ "Content-Type" \in DOMAIN inflight[t].request.headers
              /\ inflight[t].request.headers["Content-Type"] = "application/json"
              /\ inflight[t].args.queryParams = Undefined
              /\ inflight[t].client = apiHelper[t]
              /\ heap[inflight[t].client].class = "ApiHelper"
              /\ \A u \in Tests \ {t} : apiHelper[u] /= inflight[t].client

C15_Witness ==
    /\ pc[1] = "LOGGING_IN" /\ pc[2] = "LOGGING_IN"
    /\ inflight[1].client = 2 /\ inflight[2].client = 1
    /\ inflight[1].request.url = LoginUrl /\ inflight[2].request.body = loginData

\* the login of test t was answered without tokens: the user is not logged in
LoginRejected(t) ==
    /\ fixture[t] /= NoObject
    /\ Given(t).accessToken = Undefined

\* C16: a run whose login failed is reported as a setup failure and a run whose
\* test body failed is reported as a failure of the body: a setup failure is
\* reported only when the login threw and the body never ran, a body failure
\* only when the body ran, and no run that could not log in is reported as a
\* failed assertion of the test body.
C16_Reports ==
    \A t \in Tests :
        /\ outcome[t] = "setupError" =>
              /\ Entered(t, "FAILED") /\ ~Entered(t, "CONSUMER")
              /\ delivered[t].kind = "fault"
        /\ outcome[t] \in BodyEnds =>
              Entered(t, "CONSUMER") /\ ~Entered(t, "FAILED")
        /\ (pc[t] = "DONE" /\ Entered(t, "FAILED")) => outcome[t] = "setupError"
        /\ (pc[t] = "DONE" /\ Entered(t, "CONSUMER")) => outcome[t] \in BodyEnds
        /\ LoginRejected(t) => outcome[t] /= "assertionFailed"

\* the keys an error names: the paths of its issues and the keys they list
Named(result) ==
    {i.path : i \in result.issues} \cup UNION {i.keys : i \in result.issues}

\* C17: a payload that carries a key beyond the nine declared ones is rejected
\* by the strict login schema, even when the nine declared keys are all present
\* with conforming values; the error names every such key.
C17_Strict ==
    \A t \in Tests :
        (/\ checked[t].kind = "checked"
         /\ IsObject(checked[t].input)
         /\ DOMAIN checked[t].input.fields \ LoginFields /= {}) =>
            /\ checked[t].result.kind = "ZodError"
            /\ DOMAIN checked[t].input.fields \ LoginFields
                  \subseteq Named(checked[t].result)

C17_Witness ==
    /\ checked[1].kind = "checked"
    /\ checked[1].input = Obj([n \in LoginFields \cup {"token"} |->
                                  IF n = "token" THEN Str("x")
                                  ELSE LoginPayload("accA", "refA").fields[n]])
    /\ checked[1].result.kind = "ZodError"

\* C18: validating a payload that lacks required keys of the login schema
\* fails with an error, and the error names every key that is missing and every
\* key whose value does not conform, not only the first of them.
C18_AllIssues ==
    \A t \in Tests :
        (checked[t].kind = "checked" /\ IsObject(checked[t].input)) =>
            LET input   == checked[t].input
                missing == LoginFields \ DOMAIN input.fields
                wrong   == {n \in LoginFields \cap DOMAIN input.fields :
                               input.fields[n] \in WrongFor(n)}
            IN  missing \cup wrong /= {} =>
                    /\ checked[t].result.kind = "ZodError"
                    /\ missing \cup wrong \subseteq Named(checked[t].result)

C18_Witness ==
    /\ checked[1].kind = "checked"
    /\ IsObject(checked[1].input)
    /\ LoginFields \ DOMAIN checked[1].input.fields = {"email", "id"}
    /\ checked[1].input.fields["gender"] = Str("other")
    /\ checked[1].result.kind = "ZodError"
    /\ {"email", "id", "gender"} \subseteq Named(checked[1].result)

\* the login of test t was answered 200 and no other call was made since
LoginOk(t) ==
    /\ calls[t] = 0
    /\ delivered[t].kind = "response"
    /\ delivered[t].status = 200

\* C19: after a login answered 200, the response held in the fixture value has
\* exactly the nine declared keys, its accessToken and refreshToken are
\* non-empty strings, its id is a number and its gender is male or female; the
\* strict login schema accepts it and validation returns the payload.
C19_LoginResponseValid ==
    \A t \in Tests :
        /\ (pc[t] = "CONSUMER" /\ LoginOk(t)) =>
              LET r == Given(t).response
              IN  /\ IsObject(r)
                  /\ DOMAIN r.fields = {"accessToken", "refreshToken", "id",
                                        "username", "email", "firstName",
                                        "lastName", "gender", "image"}
                  /\ IsString(r.fields["accessToken"])
                  /\ r.fields["accessToken"].val /= ""
                  /\ IsString(r.fields["refreshToken"])
                  /\ r.fields["refreshToken"].val /= ""
                  /\ r.fields["id"].type = "number"
                  /\ r.fields["gender"] \in {Str("male"), Str("female")}
        /\ (/\ pc[t] = "CONSUMER" /\ LoginOk(t)
            /\ checked[t].kind = "checked"
            /\ checked[t].input = Given(t).response) =>
              /\ checked[t].result.kind = "valid"
              /\ checked[t].result.value = Given(t).response

C19_Witness ==
    /\ pc[1] = "CONSUMER" /\ LoginOk(1)
    /\ checked[1].kind = "checked"
    /\ checked[1].input = Given(1).response
    /\ Given(1).accessToken = Str("accB")
    /\ checked[1].result.kind = "valid"

\* C20: in every test case, a GET to the current-user endpoint that carries
\* Authorization: Bearer <accessToken>, the accessToken being the one of the
\* fixture value, returns a payload whose username is the username of the
\* credentials of the login.
C20_CurrentUser ==
    [][\A t \in Tests :
          (/\ inflight[t].kind = "call"
           /\ inflight[t].caller = "consumer"
           /\ inflight[t].args =
                 Args("GET", MeUrl, Bearer(Given(t).accessToken), Undefined, Undefined)
           /\ inflight'[t] = Idle
           /\ last'[t].kind = "return") =>
              Get(last'[t].value, "username") = Get(loginData, "username")]_vars

\* C21: the apiHelper fixture hands the test body a newly constructed ApiHelper
\* and issues no HTTP request: setting it up sends nothing and leaves no call
\* in flight, no request exists on that helper before the body's first call,
\* and every request on it, the first included, is one the body made.
C21_PlainNoRequest ==
    [][\A t \in Tests :
          /\ (plain[t] = NoObject /\ plain'[t] /= NoObject) =>
                /\ plain'[t] \notin DOMAIN heap
                /\ heap'[plain'[t]] = [class |-> "ApiHelper", writtenBy |-> {}]
                /\ requests'[plain'[t]] = <<>>
                /\ sent' = sent /\ loginSent' = loginSent
                /\ inflight' = inflight
          /\ plain'[t] /= NoObject =>
                /\ calls'[t] = 0 => requests'[plain'[t]] = <<>>
                /\ \A i \in 1..Len(requests'[plain'[t]]) :
                       requests'[plain'[t]][i] = "consumer"
                /\ sent'[t] = loginSent'[t] + calls'[t]]_vars

C21_Witness ==
    /\ plain[1] /= NoObject
    /\ apiHelper[1] /= NoObject /\ plain[1] < apiHelper[1]
    /\ requests[plain[1]] = <<"consumer", "consumer">>

\* C28: a test case that asks for both fixtures gets two different ApiHelper
\* objects: the helper of the authenticated fixture value is never the object
\* the apiHelper fixture handed out, and the login call is made on the
\* authenticated one only.
C28_TwoHelpers ==
    \A t \in Tests :
        (plain[t] /= NoObject /\ apiHelper[t] /= NoObject) =>
            /\ plain[t] /= apiHelper[t]
            /\ heap[plain[t]].class = "ApiHelper"
            /\ heap[apiHelper[t]].class = "ApiHelper"
            /\ fixture[t] /= NoObject =>
                  /\ Given(t).helper = apiHelper[t]
                  /\ Given(t).helper /= plain[t]
            /\ (inflight[t].kind = "call" /\ inflight[t].caller = "fixture") =>
                  /\ inflight[t].client = apiHelper[t]
                  /\ inflight[t].client /= plain[t]
            /\ \A i \in 1..Len(requests[plain[t]]) : requests[plain[t]][i] /= "fixture"
            /\ requests[apiHelper[t]][1] = "fixture"
            /\ \A i \in 2..Len(requests[apiHelper[t]]) :
                   requests[apiHelper[t]][i] = "consumer"

C28_Witness ==
    /\ plain[1] /= NoObject /\ fixture[1] /= NoObject
    /\ plain[1] > apiHelper[1]
    /\ requests[plain[1]] = <<"consumer">>
    /\ requests[apiHelper[1]] = <<"fixture", "consumer">>

\* C22: within one test case the fixture and the test body run as one sequence
\* of suspension points: at most one HTTP request is in flight at any moment,
\* no step sends more than one request, and while a call is in flight the test
\* case takes no step other than the completion of that call.
C22_Linear ==
    [][\A t \in Tests :
          /\ open'[t] \in {0, 1}
          /\ open'[t] = (IF inflight'[t].kind = "call" THEN 1 ELSE 0)
          /\ sent'[t] \in {sent[t], sent[t] + 1}
          /\ sent'[t] = sent[t] + 1 => (open[t] = 0 /\ open'[t] = 1)
          /\ (inflight[t].kind = "call" /\ inflight'[t] = inflight[t]) =>
                /\ pc'[t] = pc[t] /\ calls'[t] = calls[t] /\ sent'[t] = sent[t]
                /\ fixture'[t] = fixture[t] /\ response'[t] = response[t]]_vars

C22_Witness ==
    /\ pc[1] = "CONSUMER" /\ calls[1] = 2 /\ sent[1] = 3
    /\ open[1] = 1 /\ inflight[1].caller = "consumer"

\* C23: the credentials object {username, password} has the same value before
\* and after any sequence of provisioning runs and consumer calls: the fixture
\* passes it as the body of the login and nothing writes to it.
C23_CredentialsKept ==
    /\ IsObject(credentials)
    /\ DOMAIN credentials.fields = {"username", "password"}
    /\ credentials.fields["username"] = Str("emilys")
    /\ credentials.fields["password"] = Str("emilyspass")
    /\ \A t \in Tests :
          (inflight[t].kind = "call" /\ inflight[t].caller = "fixture") =>
              /\ inflight[t].args.body = credentials
              /\ inflight[t].request.body = credentials

C23_Witness ==
    /\ loginSent[1] = 1 /\ loginSent[2] = 1
    /\ calls[1] = 1 /\ pc[1] = "DONE"
    /\ inflight[2].kind = "call" /\ inflight[2].caller = "fixture"
    /\ inflight[2].request.body = credentials
    /\ credentials = loginData

\* a waiter that has the response  resp , or had one before it arrived
Caught(before, after, needle, resp) ==
    Matches(resp, needle) =>
        /\ after.state = "resolved"
        /\ Matches(after.response, needle)
        /\ before.state /= "resolved" => after.response = resp

Expected(waiter) ==
    IF waiter.state = "resolved" /\ waiter.response.json
    THEN Obj([n \in {"from"} |-> Text(waiter.response.url)])
    ELSE Null

\* C25: a captured response whose body is not JSON does not make
\* captureResponseWhenPageLoad fail: its field of the result is null;
\* secondResponse is null too when no secondRequestUrl was given; the result
\* has exactly the fields firstResponse and secondResponse.
C25_NullOnBadJson ==
    /\ capture.pc = "thrown" => capture.error \in {"step", "TimeoutError"}
    /\ capture.pc \in {"awaitSecond", "secondJson"} =>
          capture.firstData = Expected(capture.first)
    /\ capture.pc = "returned" =>
          /\ DOMAIN capture.result = {"firstResponse", "secondResponse"}
          /\ capture.result.firstResponse = Expected(capture.first)
          /\ capture.result.secondResponse = Expected(capture.second)
          /\ capture.secondRequestUrl \in {Undefined, Text(<<>>)} =>
                capture.result.secondResponse = Null

C25_Witness ==
    /\ capture.pc = "returned"
    /\ capture.first.state = "resolved" /\ ~capture.first.response.json
    /\ capture.second.state = "resolved" /\ capture.second.response.json
    /\ capture.result.firstResponse = Null
    /\ capture.result.secondResponse /= Null

\* C26: expectCountGreaterThan(locator, number) passes exactly when the count
\* of the elements that match locator is greater than number, and fails
\* otherwise.
C26_CountGreater ==
    counted.pc \in {"passed", "failed"} =>
        (counted.pc = "passed" <=> counted.count > counted.number)

\* C27 as stated: isAlertDisplayed never throws; it returns true exactly when a
\* dialog event occurred within its wait, and then the dialog has been
\* dismissed exactly once before it returns; it returns false when the wait
\* ended with no dialog.
C27_DismissedOnce ==
    /\ alert.pc /= "thrown"
    /\ alert.pc = "returned" =>
          /\ alert.result = alert.seen
          /\ alert.seen => alert.closed = 1
          /\ ~alert.seen => alert.closed = 0

\* C27 amended: isAlertDisplayed never throws; it returns true exactly when a
\* dialog event occurred within its wait, and then alert.dismiss() has been
\* called exactly once and has settled before it returns: the dialog was
\* dismissed once if that call resolved and not at all if it rejected, the
\* rejection being swallowed; it returns false, with no call of dismiss, when
\* the wait ended with no dialog.
C27_DismissAttemptedOnce ==
    /\ alert.pc /= "thrown"
    /\ alert.pc = "returned" =>
          /\ alert.result = alert.seen
          /\ alert.seen =>
                /\ alert.dismissCalls = 1
                /\ alert.dismissal /= "none"
                /\ alert.closed = (IF alert.dismissal = "resolved" THEN 1 ELSE 0)
          /\ ~alert.seen =>
                /\ alert.dismissCalls = 0 /\ alert.closed = 0
                /\ alert.dismissal = "none"

C27_Witness ==
    /\ alert.pc = "returned" /\ alert.calls = 2 /\ alert.dialogs = 2
    /\ alert.result /\ alert.seen
    /\ alert.dialog.type = "confirm"
    /\ alert.dismissCalls = 1 /\ alert.closed = 1

====
